---- MODULE Spec2Model ----
(***************************************************************************)
(* Model of backend/server.py of the leave-permit service: the entitlement *)
(* calculation calculate_days_available and the handlers get_teacher_days, *)
(* create_permit and review_permit over the users, permits and             *)
(* notifications collections.                                              *)
(*                                                                         *)
(* Representation                                                          *)
(*  - Optional[T]: None is <<>>, a present value x is <<x>>.               *)
(*  - hire_date: the value of (datetime.now(timezone.utc) - hire_date).days*)
(*    at the time of the calculation, an integer number of elapsed days    *)
(*    (negative for a hire date in the future).  The day does not change   *)
(*    during a run.                                                        *)
(*  - years_of_service = days / 365.25 is a float in the source.  It is    *)
(*    kept exact here as the fraction (YearDen * days) / YearNum.  Every   *)
(*    comparison and truncation in the source is against whole numbers,    *)
(*    and a quotient of that form that is not whole differs from every     *)
(*    whole number by at least 1/14610, far more than a double's rounding  *)
(*    error, so the float and the exact fraction decide alike.             *)
(*  - a permit's id is its position in the permits collection (documents   *)
(*    are only ever appended).                                             *)
(*  - a handler suspended at an await is a record in inflight; the steps  *)
(*    before and after a read or write of the permits collection are       *)
(*    separate actions, so that handlers interleave there.                 *)
(***************************************************************************)
EXTENDS Integers, Sequences, FiniteSets, Bags, TLC

VARIABLES users, permits, notifications, inflight, clock, response

vars == <<users, permits, notifications, inflight, clock, response>>

---------------------------------------------------------------------------
(* Bounds of the model *)

\* most documents in the permits collection
MaxPermits == 2
\* most review requests started in one run
MaxReviews == 2
\* most handlers suspended at an await at one time
MaxInFlight == 2
\* hire dates range from FutureYears years ahead to MaxYears years back
FutureYears == 1
MaxYears == 23

\* days_requested values offered to create_permit
RequestDays == {8}
\* days_requested values of the permit documents of an arbitrary store
StoredDays == {5, 16}

---------------------------------------------------------------------------
(* Enumerations and Optional *)

None == <<>>

Some(x) == <<x>>

ADMIN == "admin"

TEACHER == "teacher"

UserRole == {ADMIN, TEACHER}

FULL_TIME == "full_time"

PART_TIME == "part_time"

HOURLY == "hourly"

ContractType == {FULL_TIME, PART_TIME, HOURLY}

VACATION_57 == "vacation_57"

ECONOMIC_62 == "economic_62"

PermitType == {VACATION_57, ECONOMIC_62}

PENDING == "pending"

APPROVED == "approved"

REJECTED == "rejected"

PermitStatus == {PENDING, APPROVED, REJECTED}

---------------------------------------------------------------------------
(* Arithmetic helpers *)

Max(a, b) == IF a >= b THEN a ELSE b

Min(a, b) == IF a <= b THEN a ELSE b

\* Python int() of the quotient n / d (d > 0): truncation toward zero
PyInt(n, d) == IF n >= 0 THEN n \div d ELSE -((-n) \div d)

RECURSIVE SumDays(_)
SumDays(ps) == IF ps = <<>> THEN 0 ELSE Head(ps).days_requested + SumDays(Tail(ps))

---------------------------------------------------------------------------
(* calculate_days_available *)

\* 365.25 = YearNum / YearDen
YearNum == 1461

YearDen == 4

vacation_period_1 == 10

vacation_period_2 == 10

economic_base == 8

DaysAvailable(p1, p2, add, eco, tv, te) ==
    [vacation_period_1 |-> p1, vacation_period_2 |-> p2, vacation_additional |-> add,
     economic_days |-> eco, total_vacation |-> tv, total_economic |-> te]

\* the guard of the early return: not user.hire_date or not user.contract_type
NoFullProfile(user) == user.hire_date = None \/ user.contract_type = None

\* years_of_service >= k and years_of_service > k, for a whole number k
YearsGE(days, k) == YearDen * days >= YearNum * k

YearsGT(days, k) == YearDen * days > YearNum * k

\* (variant: the re-capping to 8 of lines 160-163 left out)
VacationAdditionalCap15(user, days) ==
    IF user.contract_type \in {Some(FULL_TIME), Some(PART_TIME)}
    THEN IF YearsGE(days, 6)
         THEN Min(5 + PyInt(YearDen * days - 5 * YearNum, YearNum), 15)
         ELSE IF YearsGT(days, 5) THEN 5 ELSE 0
    ELSE 0

\* the additional vacation bucket before usage (lines 154-165)
VacationAdditional(user, days) ==
    IF user.contract_type \in {Some(FULL_TIME), Some(PART_TIME)}
    THEN IF YearsGE(days, 6)
         THEN LET years_after_five == PyInt(YearDen * days - 5 * YearNum, YearNum)
                  capped == Min(5 + years_after_five, 15)
              IN  IF user.contract_type = Some(FULL_TIME)
                  THEN Min(capped, 8)
                  ELSE Min(capped, 8)
         ELSE IF YearsGT(days, 5) THEN 5 ELSE 0
    ELSE 0

\* (variant: floor division in place of int())
EconomicDaysFloor(days) == economic_base + ((YearDen * days) \div (YearNum * 10))

\* the economic entitlement before usage (lines 167-169)
EconomicDays(days) == economic_base + PyInt(YearDen * days, YearNum * 10)

IsApproved(p) == p.status = APPROVED

IsVacation(p) == p.permit_type = VACATION_57

IsEconomic(p) == p.permit_type = ECONOMIC_62

\* (variant: pending permits counted as used)
ApprovedPermitsOrPending(ps) ==
    LET NotRejected(p) == p.status # REJECTED IN SelectSeq(ps, NotRejected)

\* approved_permits = [p for p in permits if p.status == APPROVED]
ApprovedPermits(ps) == SelectSeq(ps, IsApproved)

VacationUsed(ps) == SumDays(SelectSeq(ApprovedPermits(ps), IsVacation))

EconomicUsed(ps) == SumDays(SelectSeq(ApprovedPermits(ps), IsEconomic))

\* (variant: the max(0, ...) clipping left out)
RemainingUnclipped(additional, economic, vacation_used, economic_used) ==
    LET total_vacation_available == vacation_period_1 + vacation_period_2 + additional
    IN  DaysAvailable(
          vacation_period_1 - Min(vacation_used, vacation_period_1),
          vacation_period_2 - Max(0, vacation_used - vacation_period_1),
          additional - Max(0, vacation_used - (vacation_period_1 + vacation_period_2)),
          economic - economic_used,
          total_vacation_available - vacation_used,
          economic - economic_used)

\* (variant: period 2 charged before period 1)
RemainingPeriod2First(additional, economic, vacation_used, economic_used) ==
    LET total_vacation_available == vacation_period_1 + vacation_period_2 + additional
    IN  DaysAvailable(
          Max(0, vacation_period_1 - Max(0, vacation_used - vacation_period_2)),
          Max(0, vacation_period_2 - Min(vacation_used, vacation_period_2)),
          Max(0, additional - Max(0, vacation_used - (vacation_period_1 + vacation_period_2))),
          Max(0, economic - economic_used),
          Max(0, total_vacation_available - vacation_used),
          Max(0, economic - economic_used))

\* (variant: the additional bucket left out of total_vacation_available)
RemainingTotalWithoutAdditional(additional, economic, vacation_used, economic_used) ==
    LET total_vacation_available == vacation_period_1 + vacation_period_2
    IN  DaysAvailable(
          Max(0, vacation_period_1 - Min(vacation_used, vacation_period_1)),
          Max(0, vacation_period_2 - Max(0, vacation_used - vacation_period_1)),
          Max(0, additional - Max(0, vacation_used - (vacation_period_1 + vacation_period_2))),
          Max(0, economic - economic_used),
          Max(0, total_vacation_available - vacation_used),
          Max(0, economic - economic_used))

\* (variant: the operands of the period-2 charge swapped)
RemainingPeriod2Swapped(additional, economic, vacation_used, economic_used) ==
    LET total_vacation_available == vacation_period_1 + vacation_period_2 + additional
    IN  DaysAvailable(
          Max(0, vacation_period_1 - Min(vacation_used, vacation_period_1)),
          Max(0, vacation_period_2 - Max(0, vacation_period_1 - vacation_used)),
          Max(0, additional - Max(0, vacation_used - (vacation_period_1 + vacation_period_2))),
          Max(0, economic - economic_used),
          Max(0, total_vacation_available - vacation_used),
          Max(0, economic - economic_used))

\* the returned DaysAvailable (lines 175-185)
Remaining(additional, economic, vacation_used, economic_used) ==
    LET total_vacation_available == vacation_period_1 + vacation_period_2 + additional
        total_economic_available == economic
    IN  DaysAvailable(
          Max(0, vacation_period_1 - Min(vacation_used, vacation_period_1)),
          Max(0, vacation_period_2 - Max(0, vacation_used - vacation_period_1)),
          Max(0, additional - Max(0, vacation_used - (vacation_period_1 + vacation_period_2))),
          Max(0, total_economic_available - economic_used),
          Max(0, total_vacation_available - vacation_used),
          Max(0, total_economic_available - economic_used))

\* (variant: the early return of lines 144-148 left out, a missing hire date
\* read as hired today)
calculate_days_available_no_early_return(user, ps) ==
    LET days == IF user.hire_date = None THEN 0 ELSE user.hire_date[1]
    IN  Remaining(VacationAdditional(user, days), EconomicDays(days),
                  VacationUsed(ps), EconomicUsed(ps))

calculate_days_available(user, ps) ==
    IF NoFullProfile(user)
    THEN DaysAvailable(0, 0, 0, 0, 0, 0)
    ELSE LET days == user.hire_date[1]
         IN  Remaining(VacationAdditional(user, days), EconomicDays(days),
                       VacationUsed(ps), EconomicUsed(ps))

---------------------------------------------------------------------------
(* Documents *)

User(id, name, role, contract_type, hire_date) ==
    [id |-> id, name |-> name, role |-> role,
     contract_type |-> contract_type, hire_date |-> hire_date]

\* a Permit built by create_permit: status PENDING and no review metadata
Permit(teacher_id, permit_type, days_requested) ==
    [teacher_id |-> teacher_id, permit_type |-> permit_type,
     days_requested |-> days_requested, status |-> PENDING,
     reviewed_at |-> None, reviewed_by |-> None, rejection_reason |-> None]

PermitCreate == [permit_type : PermitType, days_requested : RequestDays]

\* rejection_reason: None and "" are both falsy at line 356
PermitReview == [status : PermitStatus, rejection_reason : {None, Some("motivo")}]

Notification(user_id, title) == [user_id |-> user_id, title |-> title]

Response(handler, status, body) == [handler |-> handler, status |-> status, body |-> body]

NoResponse == Response("none", 0, None)

\* db.permits.find({"teacher_id": id}).to_list(1000)
PermitsOf(id) == LET Mine(p) == p.teacher_id = id IN SelectSeq(permits, Mine)

\* (variant: find({}), every user)
AdminsAndTeachers == users

\* db.users.find({"role": ADMIN})
Admins == {u \in users : u.role = ADMIN}

---------------------------------------------------------------------------
(* The seeded database (scripts/seed_data.py), with a second administrator *)
(* registered through /auth/register                                       *)

SeedUsers ==
    { User("admin-001", "Administrador Principal", ADMIN, None, None),
      User("admin-002", "Administrador Adjunto", ADMIN, None, None),
      User("teacher-001", "Maria Garcia Lopez", TEACHER, Some(FULL_TIME), Some(365 * 7)),
      User("teacher-004", "Carlos Lopez Hernandez", TEACHER, Some(HOURLY), Some(365 * 2)) }

Init ==
    /\ users = SeedUsers
    /\ permits = <<>>
    /\ notifications = EmptyBag
    /\ inflight = {}
    /\ clock = 0
    /\ response = NoResponse

---------------------------------------------------------------------------
(* GET /teachers/{teacher_id}/days *)

\* The 403 and 404 exits (lines 254-259) are the guards: the action is the
\* request that reaches the calculation.
get_teacher_days(current_user, teacher_id) ==
    /\ current_user.role = ADMIN \/ current_user.id = teacher_id
    /\ \E t \in users : t.id = teacher_id
    /\ LET teacher == CHOOSE t \in users : t.id = teacher_id
       IN  response' = Response("get_teacher_days", 200,
                          Some(calculate_days_available(teacher, PermitsOf(teacher_id))))
    /\ UNCHANGED <<users, permits, notifications, inflight, clock>>

---------------------------------------------------------------------------
(* POST /permits *)

AvailableOfKind(permit_data, days_available) ==
    IF permit_data.permit_type = VACATION_57
    THEN days_available.total_vacation
    ELSE days_available.total_economic

\* (variant: >= in place of >)
InsufficientAtLeast(permit_data, days_available) ==
    permit_data.days_requested >= AvailableOfKind(permit_data, days_available)

\* the two comparisons of lines 294 and 297
Insufficient(permit_data, days_available) ==
    permit_data.days_requested > AvailableOfKind(permit_data, days_available)

InsufficientDetail(permit_data, days_available) ==
    [bucket |-> IF permit_data.permit_type = VACATION_57
                THEN "dias de vacaciones" ELSE "dias economicos",
     available |-> AvailableOfKind(permit_data, days_available)]

\* the bound on the permits collection: documents stored or about to be
StoreHasRoom ==
    Len(permits) + Cardinality({r \in inflight : r.step = "insert_permit"}) < MaxPermits

\* lines 280-281: the caller is not a teacher
CreateForbidden(current_user) ==
    /\ current_user.role # TEACHER
    /\ response' = Response("create_permit", 403, None)
    /\ UNCHANGED <<users, permits, notifications, inflight, clock>>

\* (variant: the balance check placed after insert_one)
CreateInsufficientAfterInsert(current_user, permit_data) ==
    /\ current_user.role = TEACHER
    /\ LET days_available ==
               calculate_days_available(current_user, PermitsOf(current_user.id))
       IN  /\ Insufficient(permit_data, days_available)
           /\ response' = Response("create_permit", 400,
                                   Some(InsufficientDetail(permit_data, days_available)))
    /\ permits' = Append(permits, Permit(current_user.id, permit_data.permit_type,
                                         permit_data.days_requested))
    /\ UNCHANGED <<users, notifications, inflight, clock>>

\* lines 283-298: the read of the caller's permits and the balance check, failing
CreateInsufficient(current_user, permit_data) ==
    /\ current_user.role = TEACHER
    /\ LET days_available ==
               calculate_days_available(current_user, PermitsOf(current_user.id))
       IN  /\ Insufficient(permit_data, days_available)
           /\ response' = Response("create_permit", 400,
                                   Some(InsufficientDetail(permit_data, days_available)))
    /\ UNCHANGED <<users, permits, notifications, inflight, clock>>

\* lines 283-304: the read of the caller's permits and the balance check, passing:
\* the handler is suspended at insert_one with the Permit it has built
CreateFind(current_user, permit_data) ==
    /\ Cardinality(inflight) < MaxInFlight
    /\ StoreHasRoom
    /\ current_user.role = TEACHER
    /\ LET days_available ==
               calculate_days_available(current_user, PermitsOf(current_user.id))
       IN  ~Insufficient(permit_data, days_available)
    /\ inflight' = inflight \cup
          {[handler |-> "create_permit", step |-> "insert_permit",
            current_user |-> current_user, permit_id |-> 0, review |-> None,
            permit |-> Permit(current_user.id, permit_data.permit_type,
                              permit_data.days_requested)]}
    /\ UNCHANGED <<users, permits, notifications, clock, response>>

\* lines 300-324: db.permits.insert_one(doc), one notification for each
\* administrator, then the response.  The notification inserts are awaits of
\* their own; they write a collection no handler of the model reads, so they
\* are taken in the step of the insert.
CreateInsert(r) ==
    /\ r.handler = "create_permit" /\ r.step = "insert_permit"
    /\ permits' = Append(permits, r.permit)
    /\ notifications' = notifications (+)
         SetToBag({Notification(a.id, "Nueva solicitud de permiso") : a \in Admins})
    /\ inflight' = inflight \ {r}
    /\ response' = Response("create_permit", 200, Some(r.permit))
    /\ UNCHANGED <<users, clock>>

---------------------------------------------------------------------------
(* PUT /permits/{permit_id}/review *)

\* lines 351-357: the fields the review sets
update_data(review, current_user, now) ==
    [status |-> Some(review.status), reviewed_at |-> Some(Some(now)),
     reviewed_by |-> Some(Some(current_user.name)),
     rejection_reason |-> IF review.rejection_reason # None
                          THEN Some(review.rejection_reason) ELSE None]

\* {"$set": data} on a document, and dict.update(data): absent keys are kept
Set(doc, data) ==
    [doc EXCEPT !.status = data.status[1],
                !.reviewed_at = data.reviewed_at[1],
                !.reviewed_by = data.reviewed_by[1],
                !.rejection_reason = IF data.rejection_reason # None
                                     THEN data.rejection_reason[1] ELSE @]

\* db.permits.update_one({"id": permit_id}, {"$set": data}): the filter of
\* line 359 is the id alone
UpdateOne(permit_id, data) ==
    IF permit_id \in 1..Len(permits)
    THEN [permits EXCEPT ![permit_id] = Set(@, data)]
    ELSE permits

\* the bound on the reviews that reach the update in one run
ReviewsLeft == clock < MaxReviews

\* lines 344-345: the caller is not an administrator
ReviewForbidden(current_user) ==
    /\ current_user.role # ADMIN
    /\ response' = Response("review_permit", 403, None)
    /\ UNCHANGED <<users, permits, notifications, inflight, clock>>

\* lines 347-349: db.permits.find_one({"id": permit_id}) finds nothing
ReviewNotFound(current_user, permit_id) ==
    /\ current_user.role = ADMIN
    /\ permit_id \notin 1..Len(permits)
    /\ response' = Response("review_permit", 404, None)
    /\ UNCHANGED <<users, permits, notifications, inflight, clock>>

\* lines 347-349: db.permits.find_one({"id": permit_id}) finds the document:
\* the handler is suspended at update_one holding the document it has read
ReviewFind(current_user, permit_id, review) ==
    /\ Cardinality(inflight) < MaxInFlight
    /\ ReviewsLeft
    /\ current_user.role = ADMIN
    /\ permit_id \in 1..Len(permits)
    /\ clock' = clock + 1
    /\ inflight' = inflight \cup
          {[handler |-> "review_permit", step |-> "update_one",
            current_user |-> current_user, permit_id |-> permit_id,
            review |-> Some(review), permit |-> permits[permit_id]]}
    /\ UNCHANGED <<users, permits, notifications, response>>

\* lines 351-378: update_data, db.permits.update_one, permit_doc.update, the
\* notification for the permit's teacher (taken in the same step, as in
\* CreateInsert), then the response built from the document read at line 347
ReviewUpdate(r) ==
    /\ r.handler = "review_permit" /\ r.step = "update_one"
    /\ LET data == update_data(r.review[1], r.current_user, clock)
           permit == Set(r.permit, data)
       IN  /\ permits' = UpdateOne(r.permit_id, data)
           /\ notifications' = notifications (+)
                  SetToBag({Notification(permit.teacher_id,
                                         IF r.review[1].status = APPROVED
                                         THEN "Solicitud aprobada"
                                         ELSE "Solicitud rechazada")})
           /\ response' = Response("review_permit", 200, Some(permit))
    /\ inflight' = inflight \ {r}
    /\ UNCHANGED <<users, clock>>

---------------------------------------------------------------------------
(* The service: requests arrive from any user and interleave at the awaits *)

Next ==
    \/ \E u \in users : CreateForbidden(u)
    \/ \E u \in users, d \in PermitCreate : CreateInsufficient(u, d)
    \/ \E u \in users, d \in PermitCreate : CreateFind(u, d)
    \/ \E r \in inflight : CreateInsert(r)
    \/ \E u \in users : ReviewForbidden(u)
    \/ \E u \in users : ReviewNotFound(u, Len(permits) + 1)
    \/ \E u \in users, i \in 1..MaxPermits, v \in PermitReview : ReviewFind(u, i, v)
    \/ \E r \in inflight : ReviewUpdate(r)

Spec == Init /\ [][Next]_vars

---------------------------------------------------------------------------
(* The calculation on an arbitrary employee and an arbitrary permit store: *)
(* any contract type and hire date (or none), any permits of any status    *)

\* floor(365.25 * y): the last elapsed-day count with less than y years
YearDays(y) == (YearNum * y) \div YearDen

HireDates == {YearDays(y) + d : y \in (0 - FutureYears)..MaxYears, d \in 0..1}

Employees ==
    {User("teacher-001", "Maria Garcia Lopez", TEACHER, c, h) :
        c \in {None} \cup {Some(t) : t \in ContractType},
        h \in {None} \cup {Some(d) : d \in HireDates}}

StoredPermit(teacher_id, permit_type, days_requested, status) ==
    [Permit(teacher_id, permit_type, days_requested) EXCEPT
        !.status = status,
        !.reviewed_at = IF status = PENDING THEN None ELSE Some(0),
        !.reviewed_by = IF status = PENDING THEN None ELSE Some("Administrador Principal")]

StoredPermits(teacher_ids) ==
    {StoredPermit(id, t, d, st) :
        id \in teacher_ids, t \in PermitType, d \in StoredDays, st \in PermitStatus}

Stores(teacher_ids) == UNION {[1..n -> StoredPermits(teacher_ids)] : n \in 0..MaxPermits}

InitCalc ==
    /\ \E e \in Employees : users = {e}
    /\ permits \in Stores({"teacher-001"})
    /\ notifications = EmptyBag
    /\ inflight = {}
    /\ clock = 0
    /\ response = NoResponse

NextCalc == \E u \in users : get_teacher_days(u, u.id)

SpecCalc == InitCalc /\ [][NextCalc]_vars

---------------------------------------------------------------------------
(* create_permit on the seeded users and an arbitrary permit store *)

InitCreate ==
    /\ users = SeedUsers
    /\ permits \in Stores({u.id : u \in {t \in SeedUsers : t.role = TEACHER}})
    /\ notifications = EmptyBag
    /\ inflight = {}
    /\ clock = 0
    /\ response = NoResponse

NextCreate ==
    \/ \E u \in users : CreateForbidden(u)
    \/ \E u \in users, d \in PermitCreate : CreateInsufficient(u, d)
    \/ \E u \in users, d \in PermitCreate : CreateFind(u, d)
    \/ \E r \in inflight : CreateInsert(r)

SpecCreate == InitCreate /\ [][NextCreate]_vars

---------------------------------------------------------------------------
(* create_permit and the failing exits of review_permit, on the seeded     *)
(* users and an arbitrary permit store                                     *)

NextFailing ==
    \/ \E u \in users : CreateForbidden(u)
    \/ \E u \in users, d \in PermitCreate : CreateInsufficient(u, d)
    \/ \E u \in users, d \in PermitCreate : CreateFind(u, d)
    \/ \E r \in inflight : CreateInsert(r)
    \/ \E u \in users : ReviewForbidden(u)
    \/ \E u \in users : ReviewNotFound(u, Len(permits) + 1)

SpecFailing == InitCreate /\ [][NextFailing]_vars


---------------------------------------------------------------------------
(* Vocabulary of the properties.  The quantities are restated from the     *)
(* stored documents, not taken from the operators of the calculation.      *)

\* get_teacher_days has answered with a snapshot
Answered == response.handler = "get_teacher_days" /\ response.status = 200

Snapshot == response.body[1]

\* the employee of SpecCalc
Employee == CHOOSE u \in users : u.role = TEACHER

HasProfile(u) == u.hire_date # None /\ u.contract_type # None

ElapsedDays(u) == u.hire_date[1]

\* sum of days_requested over the first n stored permits of a teacher with
\* the given kind and a status in the given set
RECURSIVE DaysOf(_, _, _, _)
DaysOf(teacher_id, kind, statuses, n) ==
    IF n = 0 THEN 0
    ELSE DaysOf(teacher_id, kind, statuses, n - 1) +
         (IF /\ permits[n].teacher_id = teacher_id
             /\ permits[n].permit_type = kind
             /\ permits[n].status \in statuses
          THEN permits[n].days_requested ELSE 0)

vacationUsed(u) == DaysOf(u.id, VACATION_57, {APPROVED}, Len(permits))

economicUsed(u) == DaysOf(u.id, ECONOMIC_62, {APPROVED}, Len(permits))

\* the additional-vacation entitlement as the specification states it
additional(u) ==
    LET d == ElapsedDays(u)
    IN  IF u.contract_type = Some(HOURLY) THEN 0
        ELSE IF 4 * d <= 5 * 1461 THEN 0
        ELSE IF 4 * d < 6 * 1461 THEN 5
        ELSE Min(5 + ((4 * d - 5 * 1461) \div 1461), 8)

ZeroSnapshot ==
    [vacation_period_1 |-> 0, vacation_period_2 |-> 0, vacation_additional |-> 0,
     economic_days |-> 0, total_vacation |-> 0, total_economic |-> 0]

---------------------------------------------------------------------------
(* C1, C2: the status transitions of a permit (Spec) *)

\* C1: a permit's status only ever changes pending -> approved or pending ->
\* rejected; a permit already approved or rejected is never changed again by a
\* later review, and no review sets a permit to pending.
C1_OnlyPendingIsReviewed ==
    [][\A i \in 1..Len(permits) :
          permits'[i] # permits[i] =>
              /\ permits[i].status = PENDING
              /\ permits'[i].status \in {APPROVED, REJECTED}]_vars

\* C2: of two reviews of the same pending permit that interleave, at most one
\* changes the stored permit: an update_one whose handler read the permit as
\* pending, issued after another administrator's review has decided it, leaves
\* the store as it is.
C2_SecondReviewChangesNothing ==
    [][\A r \in inflight :
          (/\ ReviewUpdate(r)
           /\ r.permit.status = PENDING
           /\ r.review[1].status \in {APPROVED, REJECTED}
           /\ permits[r.permit_id].status \in {APPROVED, REJECTED}
           /\ permits[r.permit_id].reviewed_by # Some(r.current_user.name))
          => permits' = permits]_vars

---------------------------------------------------------------------------
(* C4: the balance check of create_permit (SpecCreate; it holds under Spec *)
(* as well)                                                                *)

\* C4: create_permit by a teacher fails with the insufficient-balance error
\* exactly when days_requested is strictly greater than the total of the
\* requested kind in the snapshot computed from the teacher's stored permits; a
\* request for exactly the available total, or fewer days, goes on to the insert.
C4_InsufficientExactlyWhenOverTotal ==
    \A u \in users : \A d \in PermitCreate :
        u.role = TEACHER =>
            LET snapshot == calculate_days_available(u, PermitsOf(u.id))
                total == IF d.permit_type = VACATION_57
                         THEN snapshot.total_vacation ELSE snapshot.total_economic
            IN  /\ (ENABLED CreateInsufficient(u, d)) <=> d.days_requested > total
                /\ (ENABLED CreateFind(u, d)) => d.days_requested <= total
                /\ (/\ d.days_requested <= total
                    /\ StoreHasRoom
                    /\ Cardinality(inflight) < MaxInFlight) => ENABLED CreateFind(u, d)

\* a request for exactly the 8 economic days available has been stored, and a
\* request of 8 vacation days against 4 available has been refused
C4_Witness ==
    /\ response.handler = "create_permit" /\ response.status = 400
    /\ response.body[1].available = 4
    /\ \E i \in 1..Len(permits) :
          /\ permits[i].permit_type = ECONOMIC_62
          /\ permits[i].days_requested = 8
          /\ permits[i].status = PENDING
          /\ economicUsed([id |-> permits[i].teacher_id]) = 0

---------------------------------------------------------------------------
(* C3, C5-C10: calculate_days_available (SpecCalc) *)

\* C3: the snapshot is the one computed from the approved permits alone:
\* pending and rejected permits change none of the six fields.
C3_OnlyApprovedCount ==
    Answered =>
        LET Approved(p) == p.status = APPROVED
        IN  Snapshot = calculate_days_available(Employee, SelectSeq(permits, Approved))

C3_Witness ==
    /\ Answered /\ HasProfile(Employee)
    /\ \E i, j \in 1..Len(permits) :
          /\ permits[i].status = PENDING /\ permits[i].permit_type = VACATION_57
          /\ permits[j].status = APPROVED /\ permits[j].permit_type = VACATION_57
    /\ Snapshot.total_vacation > 0

\* C5: every field of the snapshot is >= 0 for non-negative day counts, also
\* when the approved days exceed the entitlement.
C5_FieldsNonNegative ==
    (Answered /\ \A i \in 1..Len(permits) : permits[i].days_requested >= 0) =>
        /\ Snapshot.vacation_period_1 >= 0
        /\ Snapshot.vacation_period_2 >= 0
        /\ Snapshot.vacation_additional >= 0
        /\ Snapshot.economic_days >= 0
        /\ Snapshot.total_vacation >= 0
        /\ Snapshot.total_economic >= 0

\* 32 approved vacation days and 32 approved economic days: more than any entitlement
C5_Witness ==
    /\ Answered /\ HasProfile(Employee)
    /\ vacationUsed(Employee) > 20 + additional(Employee)
    /\ Snapshot.total_vacation = 0
    /\ Snapshot.vacation_additional = 0

\* C6: the additional-vacation entitlement (vacation_additional with no
\* vacation day used) is 0 for an hourly contract; for full-time and part-time
\* 0 when yearsOfService <= 5, 5 when 5 < yearsOfService < 6, and
\* min(5 + floor(yearsOfService - 5), 8) when yearsOfService >= 6.
C6_AdditionalEntitlement ==
    (Answered /\ HasProfile(Employee) /\ vacationUsed(Employee) = 0) =>
        /\ Snapshot.vacation_additional = additional(Employee)
        /\ Snapshot.vacation_additional <= 8

\* a part-time employee past ten years of service has the capped 8 days
C6_Witness ==
    /\ Answered /\ HasProfile(Employee) /\ vacationUsed(Employee) = 0
    /\ Employee.contract_type = Some(PART_TIME)
    /\ 4 * ElapsedDays(Employee) > 10 * 1461
    /\ Snapshot.vacation_additional = 8

\* C7 as stated: economic_days = max(0, 8 + floor(yearsOfService / 10) - economicUsed)
C7_EconomicDaysFloor ==
    (Answered /\ HasProfile(Employee)) =>
        Snapshot.economic_days =
            Max(0, 8 + ((4 * ElapsedDays(Employee)) \div 14610) - economicUsed(Employee))

\* C7 as amended: economic_days = max(0, 8 + trunc(yearsOfService / 10) -
\* economicUsed), trunc rounding toward zero as int() does (the floor when the
\* hire date is not in the future).
C7_EconomicDaysTruncated ==
    (Answered /\ HasProfile(Employee)) =>
        LET n == 4 * ElapsedDays(Employee)
            trunc == IF n >= 0 THEN n \div 14610 ELSE 0 - ((0 - n) \div 14610)
        IN  Snapshot.economic_days = Max(0, 8 + trunc - economicUsed(Employee))

\* an employee whose hire date lies ahead, with approved economic days
C7_Witness ==
    /\ Answered /\ HasProfile(Employee)
    /\ ElapsedDays(Employee) < 0
    /\ economicUsed(Employee) = 5
    /\ Snapshot.economic_days = 3

\* C8: approved vacation days are charged to period 1, then period 2, then
\* the additional bucket.
C8_BucketOrder ==
    (Answered /\ HasProfile(Employee) /\ vacationUsed(Employee) >= 0) =>
        LET used == vacationUsed(Employee)
        IN  /\ Snapshot.vacation_period_1 = Max(0, 10 - used)
            /\ Snapshot.vacation_period_2 = Max(0, 10 - Max(0, used - 10))
            /\ Snapshot.vacation_additional =
                   Max(0, additional(Employee) - Max(0, used - 20))
            /\ Snapshot.vacation_period_2 < 10 => Snapshot.vacation_period_1 = 0
            /\ Snapshot.vacation_additional < additional(Employee) =>
                   Snapshot.vacation_period_2 = 0

\* additional = 5 and 16 days used: period 1 is exhausted, period 2 is charged
\* 6 days, the additional bucket is untouched
C8_Witness ==
    /\ Answered /\ HasProfile(Employee)
    /\ additional(Employee) = 5 /\ vacationUsed(Employee) = 16
    /\ Snapshot.vacation_period_1 = 0
    /\ Snapshot.vacation_period_2 = 4
    /\ Snapshot.vacation_additional = 5

\* C9: total_vacation = max(0, (10 + 10 + additional) - vacationUsed) and
\* total_economic = economic_days.
C9_Totals ==
    (Answered /\ HasProfile(Employee)) =>
        /\ Snapshot.total_vacation =
               Max(0, (10 + 10 + additional(Employee)) - vacationUsed(Employee))
        /\ Snapshot.total_economic = Snapshot.economic_days

C9_Witness ==
    /\ Answered /\ HasProfile(Employee)
    /\ additional(Employee) = 8 /\ vacationUsed(Employee) = 16
    /\ Snapshot.total_vacation = 12
    /\ economicUsed(Employee) = 5 /\ Snapshot.total_economic = 4

\* C10: an employee with no hire date or no contract type gets the snapshot
\* whose six fields are all 0, whatever the permits.
C10_NoProfileAllZero ==
    (Answered /\ ~HasProfile(Employee)) => Snapshot = ZeroSnapshot

\* a hire date but no contract type, and approved permits in the store
C10_Witness ==
    /\ Answered
    /\ Employee.hire_date # None /\ Employee.contract_type = None
    /\ \E i \in 1..Len(permits) : permits[i].status = APPROVED

---------------------------------------------------------------------------
(* C11: monotonicity of the vacation fields (SpecCalc) *)

\* the approved vacation days of a permit list
RECURSIVE ApprovedVacationDays(_)
ApprovedVacationDays(ps) ==
    IF ps = <<>> THEN 0
    ELSE (IF Head(ps).status = APPROVED /\ Head(ps).permit_type = VACATION_57
          THEN Head(ps).days_requested ELSE 0) + ApprovedVacationDays(Tail(ps))

\* the stores of SpecCalc, grouped by their approved-vacation sum
EmployeeStores == Stores({"teacher-001"})
VacationSums == {ApprovedVacationDays(q) : q \in EmployeeStores}
StoresBySum == [u \in VacationSums |-> {q \in EmployeeStores : ApprovedVacationDays(q) = u}]

\* for each employee and each sum, the snapshots of the stores with that sum
SnapshotsBySum ==
    [e \in Employees |->
        [u \in VacationSums |-> {calculate_days_available(e, q) : q \in StoresBySum[u]}]]

\* C11: for a fixed employee and two permit sets whose approved vacation days
\* sum to u1 <= u2, each of vacation_period_1, vacation_period_2,
\* vacation_additional and total_vacation computed for u2 is at most the value
\* computed for u1.  (u1 is the store the handler answered for, u2 any store.)
C11_VacationMonotone ==
    Answered =>
        \A u2 \in VacationSums :
            vacationUsed(Employee) <= u2 =>
                \A other \in SnapshotsBySum[Employee][u2] :
                    /\ other.vacation_period_1 <= Snapshot.vacation_period_1
                    /\ other.vacation_period_2 <= Snapshot.vacation_period_2
                    /\ other.vacation_additional <= Snapshot.vacation_additional
                    /\ other.total_vacation <= Snapshot.total_vacation

\* 5 approved days answered for, against stores with 21: every field has dropped
C11_Witness ==
    /\ Answered /\ HasProfile(Employee)
    /\ additional(Employee) = 8 /\ vacationUsed(Employee) = 5
    /\ Snapshot.vacation_period_1 = 5
    /\ \E other \in SnapshotsBySum[Employee][21] :
          /\ other.vacation_period_1 = 0 /\ other.vacation_period_2 = 0
          /\ other.vacation_additional = 7 /\ other.total_vacation = 7

---------------------------------------------------------------------------
(* C12: the calculation and the wall clock (SpecCalc) *)

\* days between two calls of calculate_days_available
MaxDaysLater == 1

\* hire_date holds the days elapsed up to the call, the difference line 150
\* takes from datetime.now(): the same stored record, read `days` days
\* later, has elapsed that much more
Later(user, days) ==
    [user EXCEPT !.hire_date = IF @ = None THEN None ELSE Some(@[1] + days)]

\* C12: calculate_days_available is a pure function of its two arguments: two
\* calls with the same employee record and the same permit set return
\* identical snapshots, whatever the time between them.
C12_SameArgumentsSameSnapshot ==
    Answered =>
        \A days \in 0..MaxDaysLater :
            calculate_days_available(Later(Employee, days), permits) = Snapshot

---------------------------------------------------------------------------
(* C13: the effect of a successful create_permit (SpecCreate) *)

\* a create_permit handler returns its 200 in this step
CreateSucceeds ==
    \E r \in inflight :
        /\ r.handler = "create_permit" /\ inflight' = inflight \ {r}
        /\ response' = Response("create_permit", 200, response'.body)

NewRequestNotice(u) == Notification(u.id, "Nueva solicitud de permiso")

\* C13: every successful create_permit adds exactly one permit to the store,
\* owned by the calling teacher, with status pending and no review metadata,
\* and adds exactly one notification for each administrator account (and no
\* other); no existing permit is modified.
C13_CreateAddsOnePendingPermit ==
    [][CreateSucceeds =>
        /\ Len(permits') = Len(permits) + 1
        /\ \A i \in 1..Len(permits) : permits'[i] = permits[i]
        /\ LET new == permits'[Len(permits')]
           IN  /\ \E r \in inflight \ inflight' : new.teacher_id = r.current_user.id
               /\ new.status = PENDING
               /\ new.reviewed_by = None /\ new.reviewed_at = None
               /\ new.rejection_reason = None
        /\ \A u \in users :
              CopiesIn(NewRequestNotice(u), notifications')
                  = CopiesIn(NewRequestNotice(u), notifications)
                      + (IF u.role = ADMIN THEN 1 ELSE 0)
        /\ BagCardinality(notifications')
              = BagCardinality(notifications)
                  + Cardinality({u \in users : u.role = ADMIN})]_vars

\* teacher-004's request has been stored behind an approved permit of
\* teacher-001, and each of the two administrators has been notified
C13_Witness ==
    /\ response.handler = "create_permit" /\ response.status = 200
    /\ Len(permits) = 2
    /\ permits[1].teacher_id = "teacher-001" /\ permits[1].status = APPROVED
    /\ permits[2].teacher_id = "teacher-004" /\ permits[2].status = PENDING
    /\ permits[2].reviewed_by = None /\ permits[2].reviewed_at = None
    /\ response.body = Some(permits[2])
    /\ CopiesIn(Notification("admin-001", "Nueva solicitud de permiso"), notifications) = 1
    /\ CopiesIn(Notification("admin-002", "Nueva solicitud de permiso"), notifications) = 1
    /\ BagCardinality(notifications) = 2

---------------------------------------------------------------------------
(* C14: the detail of the insufficient-balance rejection (SpecCreate) *)

\* C14: whenever create_permit rejects a request for insufficient balance,
\* the error identifies the bucket of the requested kind and carries both the
\* requested day count and the available total.
C14_DetailCarriesRequestedAndAvailable ==
    [][\A u \in users, d \in PermitCreate :
          CreateInsufficient(u, d) =>
              LET detail == response'.body[1]
                  days_available == calculate_days_available(u, PermitsOf(u.id))
              IN  /\ detail.bucket = (IF d.permit_type = VACATION_57
                                      THEN "dias de vacaciones" ELSE "dias economicos")
                  /\ detail.available = AvailableOfKind(d, days_available)
                  /\ "requested" \in DOMAIN detail
                  /\ detail.requested = d.days_requested]_vars

---------------------------------------------------------------------------
(* C15, C16: the review metadata of a stored permit (Spec) *)

\* C15: in every reachable state a stored permit has a reviewer identity and
\* a review timestamp if and only if its status is approved or rejected;
\* pending permits carry neither.
C15_ReviewMetadataIffReviewed ==
    \A i \in 1..Len(permits) :
        /\ (permits[i].reviewed_by # None) <=> (permits[i].status \in {APPROVED, REJECTED})
        /\ (permits[i].reviewed_at # None) <=> (permits[i].status \in {APPROVED, REJECTED})


\* C16: in every reachable state a stored permit carries a rejection reason
\* only if its status is rejected.
C16_ReasonOnlyIfRejected ==
    \A i \in 1..Len(permits) :
        permits[i].rejection_reason # None => permits[i].status = REJECTED

---------------------------------------------------------------------------
(* C17: approved days against the entitlement (Spec) *)

\* C17: after any sequence of create_permit and review_permit operations on
\* an employee of fixed tenure, the approved vacation days sum to at most
\* 20 + additional and the approved economic days to at most
\* 8 + floor(yearsOfService / 10).
C17_ApprovedWithinEntitlement ==
    \A u \in users :
        (u.role = TEACHER /\ HasProfile(u)) =>
            /\ vacationUsed(u) <= 20 + additional(u)
            /\ economicUsed(u) <= 8 + ((4 * ElapsedDays(u)) \div (10 * 1461))

---------------------------------------------------------------------------
(* C18: a failed operation and the store (SpecFailing) *)

\* a handler answers with an error in this step
Fails(handler, status) ==
    /\ response' = Response(handler, status, response'.body)
    /\ response' # response

\* C18: a failed operation leaves the store unchanged: create_permit failing
\* (caller not a teacher, or insufficient balance) inserts no permit and no
\* notification; review_permit failing (caller not an administrator, or
\* unknown permit id) changes no permit and inserts no notification.
C18_FailureLeavesStoreUnchanged ==
    [][(\/ Fails("create_permit", 403) \/ Fails("create_permit", 400)
        \/ Fails("review_permit", 403) \/ Fails("review_permit", 404))
          => permits' = permits /\ notifications' = notifications]_vars

\* a request of teacher-001 has been stored and notified, and then an
\* 8-day vacation request of teacher-004, who has 4 days left, is refused
C18_Witness ==
    /\ response.handler = "create_permit" /\ response.status = 400
    /\ response.body = Some([bucket |-> "dias de vacaciones", available |-> 4])
    /\ Len(permits) = 2
    /\ permits[1].teacher_id = "teacher-004" /\ permits[1].status = APPROVED
    /\ permits[1].permit_type = VACATION_57 /\ permits[1].days_requested = 16
    /\ permits[2].teacher_id = "teacher-001" /\ permits[2].status = PENDING
    /\ BagCardinality(notifications) = 2

====
